---- MODULE Spec2Model ----
(***************************************************************************)
(* Model of the Rocket.Chat bot framework (src/rocketchatbot.py, with the  *)
(* parser adapter of src/args.py and the application of src/bot.py).       *)
(*                                                                         *)
(* The asyncio program is a set of cooperatively scheduled tasks: the      *)
(* write loop, the read loop, the chat loop, the two bootstrap coroutines  *)
(* and one task per chat event.  An action of the model is what one task   *)
(* does between two suspension points (an await that really suspends).     *)
(***************************************************************************)
EXTENDS Integers, Sequences, FiniteSets, TLC

VARIABLES
    session,           \* "running" until asyncio.gather() has raised
    write_queue,       \* RocketChatBot._write_queue
    wire,              \* the frames passed to ws.send(), in order
    nextId,            \* the next fresh uuid4 (ids are 1, 2, ...)
    completion_event,  \* RocketChatBot._completion_event: id -> is the Event set
    completion,        \* RocketChatBot._completion: id -> result
    connected,         \* RocketChatBot._connected (asyncio.Event)
    headers,           \* RocketChatBot._headers has been assigned
    readPc, writePc,   \* "running" or "dead" (the loop raised)
    wsPc, wsId,        \* position of ws_bootstrap, and the id it waits for
    restPc,            \* position of rest_bootstap
    nRecv,             \* number of frames ws.recv() has returned
    resp,              \* history: id -> payloads of the result/nosub frames received
    returns,           \* history: id -> value _msg() returned to its caller
    chat_queue,        \* RocketChatBot._chat_queue
    getTasks,          \* number of pending tasks of _chat_loop that run _chat_queue.get()
    getDone,           \* results of finished get tasks that _chat_loop has not seen yet
    chatPc,            \* "running" or "dead"
    units,             \* the tasks running _chat_task, in creation order
    now,               \* time.monotonic()
    last_called,       \* _Match.last_called of every registered match (None = -1)
    triggers,          \* history: per match, the times its handler was invoked
    msg_q,             \* args.ArgumentParser.msg_q (a class attribute)
    proc,              \* "running" until the interpreter is told to exit
    registry,          \* RocketChatBot._commands, with the cmd() calls made so far
    pure               \* the call of a function without side effects, and its result

vars == <<session, write_queue, wire, nextId, completion_event, completion,
          connected, headers, readPc, writePc, wsPc, wsId, restPc, nRecv, resp,
          returns, chat_queue, getTasks, getDone, chatPc, units, now,
          last_called, triggers, msg_q, proc, registry, pure>>

sessionVars == <<session, write_queue, wire, nextId, completion_event, completion,
                 connected, headers, readPc, writePc, wsPc, wsId, restPc, nRecv,
                 resp, returns>>

chatVars == <<chat_queue, getTasks, getDone, chatPc, units, now, last_called,
              triggers, msg_q, proc>>

----------------------------------------------------------------------------
(* Bounds of the model.                                                    *)

MaxFrames == 5      \* frames the server sends in the session specification
MaxId == 3          \* ids a frame of the session specification may carry
MaxEvents == 2      \* chat events the server pushes in the chat specification
MaxMatchEvents == 3 \* chat events the server pushes in the match specification
MaxTime == 3        \* the clock stops advancing here
MaxBootEvents == 2  \* chat events the server pushes in the startup specification
MaxPings == 2       \* pings the server sends in the startup specification
MaxCalls == 3       \* cmd() calls made in the registration specification
RateLimit == 2      \* cooldown of the rate limited match, in clock ticks
MaxLen == 3         \* characters of a file name in the lookup specification
MaxFiles == 2       \* elements of the list of files in the lookup specification
MaxPieces == 3      \* pieces a text of the pattern specification is made of

None == "None"
Absent == "-"

\* no function without side effects is being called
NoCall == [fn |-> Absent, files |-> <<>>, filename |-> <<>>, text |-> <<>>,
           pc |-> "returned", found |-> FALSE, file |-> <<>>]

Payloads == {"r1", "r2"}

Last(s) == s[Len(s)]

Put(f, k, v) == [x \in (DOMAIN f) \cup {k} |-> IF x = k THEN v ELSE f[x]]

Del(f, k) == [x \in (DOMAIN f) \ {k} |-> f[x]]

----------------------------------------------------------------------------
(* Chat messages.  The text of a message is its words; prefix says that    *)
(* the text starts with the command prefix, quote that the command line    *)
(* has an unbalanced quotation mark.                                       *)

Text(prefix, words, quote) == [prefix |-> prefix, words |-> words, quote |-> quote]

\* args[0] of a changed frame: the message document
Doc(u, editedAt, reactions, rid, text) ==
    [u |-> u, editedAt |-> editedAt, reactions |-> reactions, rid |-> rid, text |-> text]

NoDoc == Doc(Absent, Absent, 0, Absent, Text(FALSE, <<>>, FALSE))

----------------------------------------------------------------------------
(* Frames.                                                                 *)

\* a text: its kind, what it names, and for a help text the commands listed
NoText == [k |-> Absent, a |-> Absent, vis |-> {}]

\* an outbound payload: {"msg": msg, "id": id, ...}
OutFrame(msg, id, method, rid, text) ==
    [msg |-> msg, id |-> id, method |-> method, rid |-> rid, text |-> text]

\* an inbound frame after json.loads(); Absent stands for a missing key
InFrame(msg, id, result, collection, eventName, args) ==
    [msg |-> msg, id |-> id, result |-> result, collection |-> collection,
     eventName |-> eventName, args |-> args]

ControlFrames ==
    {InFrame(m, 0, Absent, Absent, Absent, NoDoc) : m \in {"ping", "connected", "updated", Absent}}

ResponseFrames(ids) ==
    {InFrame("result", i, p, Absent, Absent, NoDoc) : i \in ids, p \in Payloads}
        \cup {InFrame("nosub", i, Absent, Absent, Absent, NoDoc) : i \in ids}

\* changed frames that are not the subscribed chat stream
ForeignChanged ==
    {InFrame("changed", 0, Absent, "stream-notify-user", "__my_messages__", NoDoc),
     InFrame("changed", 0, Absent, "stream-room-messages", "GENERAL", NoDoc),
     InFrame("changed", 0, Absent, "stream-room-messages", Absent, NoDoc),
     InFrame("changed", 0, Absent, Absent, Absent, NoDoc)}

\* a changed frame of the subscribed chat stream
SubscribedChanged ==
    {InFrame("changed", 0, Absent, "stream-room-messages", "__my_messages__",
             Doc("alice", Absent, 0, "GENERAL", Text(TRUE, <<"ping">>, FALSE)))}

\* raw data that json.loads() rejects; it has no fields
Garbage == "<garbage>"

RawFrames == {InFrame(Garbage, 0, Absent, Absent, Absent, NoDoc)}

SessionFrames ==
    ControlFrames \cup ResponseFrames(1..MaxId) \cup ForeignChanged \cup SubscribedChanged
        \cup RawFrames

----------------------------------------------------------------------------
(* RocketChatBot._send_msg: registers the completion event of a fresh id   *)
(* and puts the payload on the (unbounded) write queue.  It never          *)
(* suspends.  h is the record of the shared fields an atomic step updates. *)

\* a variant of _send_msg that gives every frame an id
SendMsgAlwaysId(h, msg, method, rid, text, noid) ==
    [h EXCEPT !.ce = Put(@, h.nid, FALSE),
              !.wq = Append(@, OutFrame(msg, h.nid, method, rid, text)),
              !.nid = @ + 1,
              !.id = h.nid]

\* a variant of _send_msg that registers no event
SendMsgNoEvent(h, msg, method, rid, text, noid) ==
    IF noid
    THEN [h EXCEPT !.wq = Append(@, OutFrame(msg, 0, method, rid, text)), !.id = 0]
    ELSE [h EXCEPT !.wq = Append(@, OutFrame(msg, h.nid, method, rid, text)),
                   !.nid = @ + 1,
                   !.id = h.nid]

SendMsg(h, msg, method, rid, text, noid) ==
    IF noid
    THEN [h EXCEPT !.wq = Append(@, OutFrame(msg, 0, method, rid, text)), !.id = 0]
    ELSE [h EXCEPT !.ce = Put(@, h.nid, FALSE),
                   !.wq = Append(@, OutFrame(msg, h.nid, method, rid, text)),
                   !.nid = @ + 1,
                   !.id = h.nid]

\* a variant of _get_msg that leaves the stored result in _completion
GotMsgKeepResult(h, id) ==
    [h EXCEPT !.ce = Del(@, id), !.ret = h.co[id], !.rets = Put(@, id, h.co[id])]

\* RocketChatBot._get_msg after the wait: both entries are deleted, the
\* stored result is returned
GotMsg(h, id) ==
    [h EXCEPT !.ce = Del(@, id), !.co = Del(@, id), !.ret = h.co[id],
              !.rets = Put(@, id, h.co[id])]

\* a variant of the wait that ends only when no other request is pending
ReadyWhenAlone(id) ==
    id \in DOMAIN completion_event /\ completion_event[id] /\ DOMAIN completion_event = {id}

\* the suspension of _get_msg ends when the event of the id is set
Ready(id) == id \in DOMAIN completion_event /\ completion_event[id]

----------------------------------------------------------------------------
(* The registry: the commands and matches registered by the decorators.    *)

Rooms == {"GENERAL", "OTHER"}

\* bot.py registers its commands with @app.cmd; coro names the handler,
\* args the types of the positional arguments, rooms the allow-list
\* (<<>> for None: the command was registered without one)
CommandNames == {"ping", "say", "timer", "listmemes", "block", "crash"}

Commands ==
    [c \in CommandNames |->
        CASE c = "ping"      -> [coro |-> "ping", args |-> <<>>, rooms |-> <<>>]
          [] c = "say"       -> [coro |-> "say", args |-> <<"str">>, rooms |-> <<>>]
          [] c = "timer"     -> [coro |-> "timer", args |-> <<"int">>, rooms |-> <<>>]
          [] c = "listmemes" -> [coro |-> "listmemes", args |-> <<>>, rooms |-> <<{"GENERAL"}>>]
          [] c = "block"     -> [coro |-> "block", args |-> <<>>, rooms |-> <<>>]
          [] c = "crash"     -> [coro |-> "crash", args |-> <<>>, rooms |-> <<>>]]

\* the matches in registration order: a match without a rate limit whose
\* handler raises, the rate limited match of bot.py, and a match without a
\* rate limit whose handler returns None
Matches ==
    <<[coro |-> "oops", word |-> "oops", rate_limit |-> -1],
      [coro |-> "linux_gnu", word |-> "linux", rate_limit |-> RateLimit],
      [coro |-> "greet", word |-> "hello", rate_limit |-> -1]>>

NoRateLimit(m) == m.rate_limit = -1

\* what a handler does when awaited: "ret" returns text without suspending,
\* "none" returns None, "sleep" suspends in asyncio.sleep() and then
\* returns text, "hang" suspends and is never resumed, "raise" raises an
\* exception without suspending
HandlerKind(coro) ==
    CASE coro = "timer" -> "sleep"
      [] coro = "block" -> "hang"
      [] coro = "crash" -> "raise"
      [] coro = "oops" -> "raise"
      [] coro = "greet" -> "none"
      [] OTHER -> "ret"

\* RocketChatBot.validate_args: the handler must take a parameter
ValidArgs(call) == call.params >= 1

\* a variant of the test for a command that is registered already
DuplicateNever(commands, command) == FALSE

\* "if command in self._commands"
Duplicate(commands, command) == command \in DOMAIN commands

\* the function cmd() returns, applied to a handler: it raises ValueError
\* before the assignment, or enters the handler under the name
Register(r, call) ==
    LET r1 == [r EXCEPT !.calls = Append(@, call)]
    IN IF ~ValidArgs(call) \/ Duplicate(r.commands, call.command)
       THEN [r1 EXCEPT !.raised = "ValueError"]
       ELSE [r1 EXCEPT !.commands = Put(@, call.command, call.coro)]

NoRegistry == [commands |-> <<>>, calls |-> <<>>, raised |-> None]

RECURSIVE RegisterAll(_, _)
RegisterAll(r, calls) ==
    IF calls = <<>> THEN r ELSE RegisterAll(Register(r, Head(calls)), Tail(calls))

\* the @app.cmd decorations of the application, in the order of the file
AppCalls ==
    <<[command |-> "ping", coro |-> "ping", params |-> 1],
      [command |-> "timer", coro |-> "timer", params |-> 1],
      [command |-> "say", coro |-> "say", params |-> 1],
      [command |-> "listmemes", coro |-> "listmemes", params |-> 1],
      [command |-> "block", coro |-> "block", params |-> 1],
      [command |-> "crash", coro |-> "crash", params |-> 1]>>

IntTokens == {"0", "1"}

IntValue(tok) == IF tok = "1" THEN 1 ELSE 0

----------------------------------------------------------------------------
(* The Message view of a document, and the filter of _chat_task.           *)

Username == "bot"

\* Message.edited_at: the "$date" of "editedAt", None if the key is missing
edited_at(doc) == IF doc.editedAt = Absent THEN None ELSE doc.editedAt

\* Message.reactions: one Reaction per item of "reactions", [] if missing
reactions(doc) == [i \in 1..doc.reactions |-> "reaction"]

\* a variant of the filter without the edited_at test
FilteredNoEdit(doc) == doc.u = Username \/ reactions(doc) /= <<>>

\* the filter at the head of _chat_task
Filtered(doc) ==
    doc.u = Username \/ edited_at(doc) /= None \/ reactions(doc) /= <<>>

\* match.pattern.match(msg.text), at the granularity of words
PatternMatches(m, text) == \E i \in 1..Len(text.words) : text.words[i] = m.word

\* a variant of the tokenizer that accepts an unbalanced quotation
ShlexAlwaysOk(text) == TRUE

\* shlex.split(): the words, or ValueError for an unbalanced quotation
ShlexOk(text) == ~text.quote

----------------------------------------------------------------------------
(* args.ArgumentParser as built by RocketChatBot.get_argument_parser.     *)

\* a variant of get_argument_parser without the room test
VisibleEverywhere(room_id) == CommandNames

\* the commands that get a subparser in the parser of a room
Visible(room_id) ==
    {c \in CommandNames : Commands[c].rooms = <<>> \/ room_id \in Commands[c].rooms[1]}

HelpOptions == {"-h", "--help"}

HelpText(prog, vis) == [k |-> "help", a |-> prog, vis |-> vis]

ErrText(kind, what) == [k |-> kind, a |-> what, vis |-> {}]

\* the reply send_enqueued_messages makes of a captured message
Fenced(message) == [k |-> "fenced", a |-> message.a, vis |-> message.vis]

\* the reply made of the text a handler returned
Response(coro) == [k |-> "response", a |-> coro, vis |-> {}]

\* the empty string
EmptyText == [k |-> "response", a |-> "", vis |-> {}]

\* what "await coro(msg)" evaluates to when the handler returns: None
\* (NoText), or text; say returns message.args.text, the empty string for
\* the argument ""
ReturnValue(coro, msg) ==
    CASE HandlerKind(coro) = "none" -> NoText
      [] coro = "say" /\ Len(msg.text.words) >= 2 /\ msg.text.words[2] = "" -> EmptyText
      [] OTHER -> Response(coro)

RECURSIVE LeadingHelp(_)
LeadingHelp(ws) ==
    IF ws /= <<>> /\ Head(ws) \in HelpOptions THEN 1 + LeadingHelp(Tail(ws)) ELSE 0

Positionals(ws) == SelectSeq(ws, LAMBDA w : w \notin HelpOptions)

\* the subparser of command c on the words after the command
SubParse(c, ws) ==
    LET spec == Commands[c].args
        pos == Positionals(ws)
        printed == [i \in 1..(Len(ws) - Len(pos)) |-> HelpText(c, {})]
        bad == {i \in 1..Len(spec) : i <= Len(pos) /\ spec[i] = "int" /\ pos[i] \notin IntTokens}
        err ==
            IF Len(pos) < Len(spec) THEN ErrText("the following arguments are required", c)
            ELSE IF bad /= {}
                 THEN ErrText("invalid int value", pos[CHOOSE i \in bad : \A j \in bad : i <= j])
            ELSE IF Len(pos) > Len(spec)
                 THEN ErrText("unrecognized arguments", pos[Len(spec) + 1])
            ELSE NoText
    IN [printed |-> printed, err |-> err]

\* a variant of parse_args that accepts any first word
ParseArgsNoChoices(room_id, args) ==
    LET nh == LeadingHelp(args)
        top == [i \in 1..nh |-> HelpText("!", Visible(room_id))]
        rest == SubSeq(args, nh + 1, Len(args))
    IN IF rest = <<>> \/ Head(rest) \notin Visible(room_id)
       THEN [printed |-> top, err |-> NoText]
       ELSE LET sub == SubParse(Head(rest), Tail(rest))
            IN [printed |-> top \o sub.printed, err |-> sub.err]

\* parser.parse_args(args): what _print_message captured, in emission
\* order, and the message of the exception error() raised (NoText: none)
ParseArgs(room_id, args) ==
    LET nh == LeadingHelp(args)
        top == [i \in 1..nh |-> HelpText("!", Visible(room_id))]
        rest == SubSeq(args, nh + 1, Len(args))
    IN IF rest = <<>> THEN [printed |-> top, err |-> NoText]
       ELSE IF Head(rest) \notin Visible(room_id)
            THEN [printed |-> top, err |-> ErrText("invalid choice", Head(rest))]
       ELSE LET sub == SubParse(Head(rest), Tail(rest))
            IN [printed |-> top \o sub.printed, err |-> sub.err]

----------------------------------------------------------------------------
(* _chat_task.  A unit is the task of one chat event.  h.u is the unit    *)
(* that runs; Micro is one stretch of straight-line code, Run goes on to   *)
(* the next suspension point.                                              *)

NewUnit(doc) ==
    [msg |-> doc, pc |-> "new", mi |-> 0, wait |-> 0, wake |-> 0, calls |-> <<>>,
     replies |-> <<>>, num |-> 0, ctx |-> Absent, err |-> NoText]

Suspended == {"new", "match_call", "match_wait", "drain_wait", "err_wait",
              "cmd_call", "cmd_wait", "done"}

\* ArgumentParser._print_message: the text goes to msg_q, not to a stream
PrintMessage(h, messages) == [h EXCEPT !.mq = @ \o messages]

\* ArgumentParser.exit: does nothing
ParserExit(h) == h

\* a variant of error() that exits the process, as argparse's own does
ParserErrorExits(h, message) == [h EXCEPT !.proc = "exited", !.u.pc = "done"]

\* ArgumentParser.error: raises Exception(message), which _chat_task
\* catches around parse_args
ParserError(h, message) ==
    [h EXCEPT !.u.err = message, !.u.ctx = "fail", !.u.pc = "drain"]

\* send_message up to the suspension in _get_msg
Reply(h, text, via) ==
    LET h1 == SendMsg(h, "method", "sendMessage", h.u.msg.rid, text, FALSE)
    IN [h1 EXCEPT !.u.wait = h1.id,
                  !.u.replies = Append(@, [rid |-> h.u.msg.rid, text |-> text, via |-> via]),
                  !.u.pc = IF via = "match" THEN "match_wait"
                           ELSE IF via = "drain" THEN "drain_wait"
                           ELSE IF via = "error" THEN "err_wait" ELSE "cmd_wait"]

\* where _chat_task goes on when a handler has returned None or raised
AfterHandler(h, via) ==
    IF via = "match" THEN [h EXCEPT !.u.mi = @ + 1, !.u.pc = "match"]
    ELSE [h EXCEPT !.u.pc = "done"]

\* a variant of the except clause that reports the exception to the room
CaughtAndReported(h, via) == Reply(h, ErrText("exception", Last(h.u.calls)), via)

\* "except Exception" around the await of a handler: the exception is
\* logged, the for loop goes on with the next match, a command ends
Caught(h, via) == AfterHandler(h, via)

\* "if response is not None: await self.send_message(msg.rid, response)"
Relay(h, response, via) ==
    IF response /= NoText THEN Reply(h, response, via) ELSE AfterHandler(h, via)

\* seconds the timer handler sleeps: message.args.duration
Duration(u) == IF Len(u.msg.text.words) >= 2 THEN IntValue(u.msg.text.words[2]) ELSE 0

\* response = await coro(msg)
Invoke(h, coro, via) ==
    LET h1 == [h EXCEPT !.u.calls = Append(@, coro)]
        kind == HandlerKind(coro)
    IN CASE kind \in {"ret", "none"} -> Relay(h1, ReturnValue(coro, h.u.msg), via)
         [] kind = "raise" -> Caught(h1, via)
         [] kind = "sleep" ->
                [h1 EXCEPT !.u.wake = h.t + Duration(h.u),
                           !.u.pc = IF via = "match" THEN "match_call" ELSE "cmd_call"]
         [] kind = "hang" ->
                [h1 EXCEPT !.u.wake = -1,
                           !.u.pc = IF via = "match" THEN "match_call" ELSE "cmd_call"]

\* a variant of the rate limit test that lets a call through one tick early
RateLimitedOffByOne(m, last, t) ==
    ~NoRateLimit(m) /\ last /= -1 /\ m.rate_limit - (t - last) > 1

\* remaining = match.rate_limit - elapsed; remaining > 0
RateLimited(m, last, t) ==
    ~NoRateLimit(m) /\ last /= -1 /\ m.rate_limit - (t - last) > 0

\* a variant of the iteration that stamps a matching match before the rate
\* limit test
MatchStepStampFirst(h) ==
    LET u == h.u
        m == Matches[u.mi]
        h1 == [h EXCEPT !.lc[u.mi] = h.t]
    IN IF ~PatternMatches(m, u.msg.text) THEN [h EXCEPT !.u.mi = @ + 1]
       ELSE IF RateLimited(m, h.lc[u.mi], h.t) THEN [h1 EXCEPT !.u.pc = "done"]
       ELSE Invoke([h1 EXCEPT !.trig[u.mi] = Append(@, h.t)], m.coro, "match")

\* one iteration of "for match in self._match"
MatchStep(h) ==
    LET u == h.u
        m == Matches[u.mi]
    IN IF ~PatternMatches(m, u.msg.text) THEN [h EXCEPT !.u.mi = @ + 1]
       ELSE IF RateLimited(m, h.lc[u.mi], h.t) THEN [h EXCEPT !.u.pc = "done"]
       ELSE Invoke([h EXCEPT !.lc[u.mi] = h.t, !.trig[u.mi] = Append(@, h.t)],
                   m.coro, "match")

\* "if msg.text.startswith(self.prefix)" up to the first drain
CommandStep(h) ==
    LET u == h.u
        text == u.msg.text
        parsed == ParseArgs(u.msg.rid, text.words)
        h1 == PrintMessage(h, parsed.printed)
        h2 == IF parsed.printed /= <<>> THEN ParserExit(h1) ELSE h1
    IN IF ~text.prefix THEN [h EXCEPT !.u.pc = "done"]
       ELSE IF ~ShlexOk(text) \/ text.words = <<>> THEN [h EXCEPT !.u.pc = "done"]
       ELSE IF Head(text.words) = "help"
            THEN [PrintMessage(h, <<HelpText("!", Visible(u.msg.rid))>>)
                     EXCEPT !.u.ctx = "help", !.u.pc = "drain"]
       ELSE IF h2.proc /= "running" THEN h2
       ELSE IF parsed.err /= NoText THEN ParserError(h2, parsed.err)
       ELSE [h2 EXCEPT !.u.ctx = "ok", !.u.pc = "drain"]

\* one iteration of the loop of send_enqueued_messages, and what follows
\* the loop
DrainStep(h) ==
    LET u == h.u
    IN IF h.mq /= <<>>
       THEN Reply([h EXCEPT !.mq = Tail(@), !.u.num = @ + 1], Fenced(Head(h.mq)), "drain")
       ELSE CASE u.ctx = "help" -> [h EXCEPT !.u.pc = "done"]
              [] u.ctx = "fail" ->
                    IF u.num = 0 THEN Reply(h, u.err, "error")
                    ELSE [h EXCEPT !.u.pc = "done"]
              [] u.ctx = "ok" -> [h EXCEPT !.u.pc = "lookup"]

\* coro = self._commands[command].coro, and the call
LookupStep(h) ==
    LET command == Head(h.u.msg.text.words)
    IN IF command \notin CommandNames THEN [h EXCEPT !.u.pc = "done"]
       ELSE Invoke(h, Commands[command].coro, "cmd")

Micro(h) ==
    LET u == h.u
    IN CASE u.pc = "filter" ->
                IF Filtered(u.msg) THEN [h EXCEPT !.u.pc = "done"]
                ELSE [h EXCEPT !.u.mi = 1, !.u.pc = "match"]
         [] u.pc = "match" ->
                IF u.mi > Len(Matches) THEN [h EXCEPT !.u.pc = "cmd"] ELSE MatchStep(h)
         [] u.pc = "cmd" -> CommandStep(h)
         [] u.pc = "drain" -> DrainStep(h)
         [] u.pc = "lookup" -> LookupStep(h)

\* (the set binds the state after the stretch to a value, once)
RECURSIVE Run(_)
Run(h) ==
    IF h.u.pc \in Suspended THEN h
    ELSE CHOOSE r \in {Run(x) : x \in {Micro(h)}} : TRUE

\* what a suspended unit does first when it is resumed
Resume(h) ==
    LET u == h.u
    IN CASE u.pc = "new" -> [h EXCEPT !.u.pc = "filter"]
         [] u.pc = "match_wait" ->
                [GotMsg(h, u.wait) EXCEPT !.u.mi = @ + 1, !.u.pc = "match"]
         [] u.pc = "drain_wait" -> [GotMsg(h, u.wait) EXCEPT !.u.pc = "drain"]
         [] u.pc \in {"err_wait", "cmd_wait"} -> [GotMsg(h, u.wait) EXCEPT !.u.pc = "done"]
         [] u.pc = "match_call" -> Relay(h, ReturnValue(Last(u.calls), u.msg), "match")
         [] u.pc = "cmd_call" -> Relay(h, ReturnValue(Last(u.calls), u.msg), "cmd")

----------------------------------------------------------------------------
(* The state an atomic step works on, and its write-back.                  *)

NoUnit == NewUnit(NoDoc)

Heap(u) ==
    [wq |-> write_queue, ce |-> completion_event, co |-> completion, nid |-> nextId,
     id |-> 0, ret |-> None, rets |-> returns, lc |-> last_called, trig |-> triggers,
     mq |-> msg_q, proc |-> proc, t |-> now, u |-> u]

Commit(h) ==
    /\ write_queue' = h.wq
    /\ completion_event' = h.ce
    /\ completion' = h.co
    /\ nextId' = h.nid
    /\ returns' = h.rets
    /\ last_called' = h.lc
    /\ triggers' = h.trig
    /\ msg_q' = h.mq
    /\ proc' = h.proc

Alive == session = "running" /\ proc = "running"

----------------------------------------------------------------------------
(* _bootstrap: ws_bootstrap and rest_bootstap.                             *)

Login(h) == SendMsg(h, "method", "login", Absent, NoText, FALSE)

Subscribe(h) == SendMsg(h, "sub", "stream-room-messages", Absent, NoText, FALSE)

\* the connect frame; when the connected event is already set the wait
\* does not suspend and the login request follows at once
WsConnect ==
    /\ Alive /\ wsPc = "init"
    /\ LET h1 == SendMsg(Heap(NoUnit), "connect", Absent, Absent, NoText, TRUE)
           h2 == IF connected THEN Login(h1) ELSE h1
       IN /\ Commit(h2)
          /\ wsPc' = IF connected THEN "wait_login" ELSE "wait_connected"
          /\ wsId' = h2.id
    /\ UNCHANGED <<session, wire, connected, headers, readPc, writePc, restPc, nRecv,
                   resp, chat_queue, getTasks, getDone, chatPc, units, now>>
    /\ UNCHANGED <<registry, pure>>

\* a variant of ws_bootstrap that does not wait for the connected event
WsLoginNoWait ==
    /\ Alive /\ wsPc = "wait_connected"
    /\ LET h1 == Login(Heap(NoUnit))
       IN Commit(h1) /\ wsId' = h1.id
    /\ wsPc' = "wait_login"
    /\ UNCHANGED <<session, wire, connected, headers, readPc, writePc, restPc, nRecv,
                   resp, chat_queue, getTasks, getDone, chatPc, units, now>>
    /\ UNCHANGED <<registry, pure>>

\* "await self._connected.wait()" is over: the login request
WsLogin ==
    /\ Alive /\ wsPc = "wait_connected" /\ connected
    /\ LET h1 == Login(Heap(NoUnit))
       IN Commit(h1) /\ wsId' = h1.id
    /\ wsPc' = "wait_login"
    /\ UNCHANGED <<session, wire, connected, headers, readPc, writePc, restPc, nRecv,
                   resp, chat_queue, getTasks, getDone, chatPc, units, now>>
    /\ UNCHANGED <<registry, pure>>

WsSubscribe ==
    /\ Alive /\ wsPc = "wait_login" /\ Ready(wsId)
    /\ LET h1 == Subscribe(GotMsg(Heap(NoUnit), wsId))
       IN Commit(h1) /\ wsId' = h1.id
    /\ wsPc' = "wait_sub"
    /\ UNCHANGED <<session, wire, connected, headers, readPc, writePc, restPc, nRecv,
                   resp, chat_queue, getTasks, getDone, chatPc, units, now>>
    /\ UNCHANGED <<registry, pure>>

WsDone ==
    /\ Alive /\ wsPc = "wait_sub" /\ Ready(wsId)
    /\ Commit(GotMsg(Heap(NoUnit), wsId))
    /\ wsPc' = "done"
    /\ wsId' = 0
    /\ UNCHANGED <<session, wire, connected, headers, readPc, writePc, restPc, nRecv,
                   resp, chat_queue, getTasks, getDone, chatPc, units, now>>
    /\ UNCHANGED <<registry, pure>>

\* POST /login: with a body that holds data.authToken and data.userId the
\* headers are assigned, otherwise the coroutine raises
RestBootstrap(ok) ==
    /\ Alive /\ restPc = "init"
    /\ restPc' = IF ok THEN "done" ELSE "failed"
    /\ headers' = ok
    /\ UNCHANGED <<session, write_queue, wire, nextId, completion_event, completion,
                   connected, readPc, writePc, wsPc, wsId, nRecv, resp, returns>>
    /\ UNCHANGED chatVars
    /\ UNCHANGED <<registry, pure>>

\* asyncio.gather raises the exception of the first task that failed;
\* _bootstrap logs it and returns, which ends the session
Abort ==
    /\ session = "running"
    /\ readPc = "dead" \/ writePc = "dead" \/ chatPc = "dead" \/ restPc = "failed"
    /\ session' = "aborted"
    /\ UNCHANGED <<write_queue, wire, nextId, completion_event, completion, connected,
                   headers, readPc, writePc, wsPc, wsId, restPc, nRecv, resp, returns>>
    /\ UNCHANGED chatVars
    /\ UNCHANGED <<registry, pure>>

----------------------------------------------------------------------------
(* _write_loop and _read_loop.                                             *)

\* a variant of the write loop that takes the frame put last
WriteLoopLifo ==
    /\ Alive /\ writePc = "running" /\ write_queue /= <<>>
    /\ wire' = Append(wire, Last(write_queue))
    /\ write_queue' = SubSeq(write_queue, 1, Len(write_queue) - 1)
    /\ UNCHANGED <<session, nextId, completion_event, completion, connected, headers,
                   readPc, writePc, wsPc, wsId, restPc, nRecv, resp, returns>>
    /\ UNCHANGED chatVars
    /\ UNCHANGED <<registry, pure>>

\* one iteration: data = await self._write_queue.get(); await ws.send(...)
WriteLoop ==
    /\ Alive /\ writePc = "running" /\ write_queue /= <<>>
    /\ wire' = Append(wire, Head(write_queue))
    /\ write_queue' = Tail(write_queue)
    /\ UNCHANGED <<session, nextId, completion_event, completion, connected, headers,
                   readPc, writePc, wsPc, wsId, restPc, nRecv, resp, returns>>
    /\ UNCHANGED chatVars
    /\ UNCHANGED <<registry, pure>>

\* a variant of the test that looks at the collection only
SubscribedAnyEvent(f) == f.collection = "stream-room-messages"

Subscribed(f) ==
    f.collection = "stream-room-messages" /\ f.eventName = "__my_messages__"

\* a variant of the branches that stores the result and sets no event
ResolveNoSignal(f, value) ==
    /\ completion' = Put(completion, f.id, value)
    /\ completion_event' = completion_event /\ readPc' = readPc

\* the result and nosub branches: the result is stored first, then the
\* event of the id is looked up and set; the lookup raises KeyError for an
\* id without an event, which ends the loop
Resolve(f, value) ==
    /\ completion' = Put(completion, f.id, value)
    /\ IF f.id \in DOMAIN completion_event
       THEN completion_event' = [completion_event EXCEPT ![f.id] = TRUE] /\ readPc' = readPc
       ELSE completion_event' = completion_event /\ readPc' = "dead"

\* a variant of the queues that holds one element at most
FullAtOne(q) == Len(q) >= 1

\* asyncio.Queue() has maxsize 0: the queue is never full, and put() on it
\* returns without suspending
Full(q) == FALSE

\* one iteration of the loop on the frame ws.recv() returned; json.loads()
\* raises for data that is not JSON, inside the try whose except clause
\* logs "read loop died" and raises again
\* (a put on a full queue would suspend the loop: the step is not enabled)
ReadLoop(f) ==
    /\ Alive /\ readPc = "running"
    /\ nRecv' = nRecv + 1
    /\ CASE f.msg = Garbage ->
              /\ readPc' = "dead"
              /\ UNCHANGED <<completion, completion_event, connected, write_queue,
                             chat_queue, resp>>
         [] f.msg = "ping" ->
              /\ ~Full(write_queue)
              /\ write_queue' = SendMsg(Heap(NoUnit), "pong", Absent, Absent, NoText, TRUE).wq
              /\ UNCHANGED <<completion, completion_event, readPc, connected, chat_queue, resp>>
         [] f.msg = "connected" ->
              /\ connected' = TRUE
              /\ UNCHANGED <<completion, completion_event, readPc, write_queue, chat_queue, resp>>
         [] f.msg = "result" ->
              /\ Resolve(f, f.result)
              /\ resp' = Put(resp, f.id, (IF f.id \in DOMAIN resp THEN resp[f.id] ELSE <<>>) \o <<f.result>>)
              /\ UNCHANGED <<connected, write_queue, chat_queue>>
         [] f.msg = "nosub" ->
              /\ Resolve(f, None)
              /\ resp' = Put(resp, f.id, (IF f.id \in DOMAIN resp THEN resp[f.id] ELSE <<>>) \o <<None>>)
              /\ UNCHANGED <<connected, write_queue, chat_queue>>
         [] f.msg = "changed" ->
              /\ (f.collection /= Absent /\ f.eventName /= Absent /\ Subscribed(f))
                    => ~Full(chat_queue)
              /\ chat_queue' = IF f.collection /= Absent /\ f.eventName /= Absent /\ Subscribed(f)
                               THEN Append(chat_queue, f.args) ELSE chat_queue
              /\ UNCHANGED <<completion, completion_event, readPc, connected, write_queue, resp>>
         [] OTHER ->
              UNCHANGED <<completion, completion_event, readPc, connected, write_queue,
                          chat_queue, resp>>
    /\ UNCHANGED <<session, wire, nextId, headers, writePc, wsPc, wsId, restPc, returns,
                   getTasks, getDone, chatPc, units, now, last_called, triggers, msg_q, proc>>
    /\ UNCHANGED <<registry, pure>>

----------------------------------------------------------------------------
(* _chat_loop: one pending task runs _chat_queue.get(); when it is done    *)
(* the loop creates the task of the event and the next get task, and does  *)
(* not await the task of the event.                                        *)

\* a variant of the get task that takes the event put last
GetTaskLifo ==
    /\ Alive /\ chatPc = "running" /\ getTasks > 0 /\ chat_queue /= <<>>
    /\ \A i \in 1..Len(units) : units[i].pc /= "new"
    /\ getDone' = Append(getDone, Last(chat_queue))
    /\ chat_queue' = SubSeq(chat_queue, 1, Len(chat_queue) - 1)
    /\ getTasks' = getTasks - 1
    /\ UNCHANGED sessionVars
    /\ UNCHANGED <<chatPc, units, now, last_called, triggers, msg_q, proc>>
    /\ UNCHANGED <<registry, pure>>

\* the pending get task finishes: it takes the head of the queue.  The
\* event loop runs its ready tasks in the order they were scheduled, and
\* the loop creates the task of an event before the next get task, so the
\* task of the event has run to its first suspension by then
GetTask ==
    /\ Alive /\ chatPc = "running" /\ getTasks > 0 /\ chat_queue /= <<>>
    /\ \A i \in 1..Len(units) : units[i].pc /= "new"
    /\ getDone' = Append(getDone, Head(chat_queue))
    /\ chat_queue' = Tail(chat_queue)
    /\ getTasks' = getTasks - 1
    /\ UNCHANGED sessionVars
    /\ UNCHANGED <<chatPc, units, now, last_called, triggers, msg_q, proc>>
    /\ UNCHANGED <<registry, pure>>

\* a variant of the loop that creates two get tasks for a result
NewGetsTwo(us, results) == 2 * Len(results)

\* a variant of the loop that creates no new get task
NewGetsNone(us, results) == 0

\* get tasks the loop creates for the results it found: one each
NewGets(us, results) == Len(results)

\* asyncio.wait returned: for every result of a get task a unit is created
ChatLoop ==
    /\ Alive /\ chatPc = "running" /\ getDone /= <<>>
    /\ units' = units \o [i \in 1..Len(getDone) |-> NewUnit(getDone[i])]
    /\ getTasks' = getTasks + NewGets(units, getDone)
    /\ getDone' = <<>>
    /\ UNCHANGED sessionVars
    /\ UNCHANGED <<chat_queue, chatPc, now, last_called, triggers, msg_q, proc>>
    /\ UNCHANGED <<registry, pure>>

\* a unit runs from a suspension point to the next one
UnitRun(i) ==
    \E h \in {Run(x) : x \in {Resume(Heap(units[i]))}} :
       /\ Commit(h)
       /\ units' = [units EXCEPT ![i] = h.u]
       /\ UNCHANGED <<session, wire, connected, headers, readPc, writePc, wsPc, wsId,
                      restPc, nRecv, resp, chat_queue, getTasks, getDone, chatPc, now>>
       /\ UNCHANGED <<registry, pure>>

\* the task of a new unit is run for the first time
UnitStart(i) == Alive /\ units[i].pc = "new" /\ UnitRun(i)

\* the result a unit waits for in _get_msg has arrived
UnitResume(i) ==
    /\ Alive
    /\ units[i].pc \in {"match_wait", "drain_wait", "err_wait", "cmd_wait"}
    /\ Ready(units[i].wait)
    /\ UnitRun(i)

\* the asyncio.sleep of a handler is over
HandlerWake(i) ==
    /\ Alive
    /\ units[i].pc \in {"match_call", "cmd_call"}
    /\ units[i].wake >= 0 /\ now >= units[i].wake
    /\ UnitRun(i)

\* a unit whose handler sleeps until after now
Sleeping(u) == u.pc \in {"match_call", "cmd_call"} /\ u.wake > now

\* the clock advances, up to MaxTime and as long as a handler sleeps
Tick ==
    /\ Alive
    /\ now < MaxTime \/ \E i \in 1..Len(units) : Sleeping(units[i])
    /\ now' = now + 1
    /\ UNCHANGED sessionVars
    /\ UNCHANGED <<chat_queue, getTasks, getDone, chatPc, units, last_called, triggers,
                   msg_q, proc>>
    /\ UNCHANGED <<registry, pure>>

----------------------------------------------------------------------------
(* The server.                                                             *)

\* the session specification: any frame at any time
RecvAny ==
    \E f \in SessionFrames : nRecv < MaxFrames /\ ReadLoop(f)

Alice(rid, prefix, words) == Doc("alice", Absent, 0, rid, Text(prefix, words, FALSE))

\* the chat events of the chat specification
ChatDocs ==
    {Alice("GENERAL", FALSE, <<"linux">>),
     Alice("GENERAL", FALSE, <<"linux", "hello">>),
     Alice("GENERAL", TRUE, <<"say", "linux">>),
     Alice("GENERAL", TRUE, <<"ping">>),
     Alice("OTHER", TRUE, <<"timer", "1">>),
     Alice("GENERAL", TRUE, <<"block">>),
     Alice("GENERAL", TRUE, <<"crash">>),
     Alice("GENERAL", TRUE, <<"frobnicate">>),
     Alice("OTHER", TRUE, <<"timer", "notanumber">>),
     Alice("OTHER", TRUE, <<"-h", "-h">>),
     Alice("OTHER", TRUE, <<"listmemes">>),
     Alice("GENERAL", TRUE, <<"listmemes">>),
     Alice("OTHER", TRUE, <<"help">>),
     Alice("GENERAL", TRUE, <<"help">>),
     Alice("GENERAL", TRUE, <<"say", "">>),
     Alice("GENERAL", TRUE, <<"oops", "linux">>),
     Alice("GENERAL", TRUE, <<>>),
     Doc("alice", Absent, 0, "GENERAL", Text(TRUE, <<"ping">>, TRUE)),
     Doc(Username, Absent, 0, "GENERAL", Text(TRUE, <<"say", "linux">>, FALSE)),
     Doc("alice", "1580000000", 0, "GENERAL", Text(TRUE, <<"say", "linux">>, FALSE)),
     Doc("alice", Absent, 1, "GENERAL", Text(TRUE, <<"say", "linux">>, FALSE))}

ChatFrame(doc) ==
    InFrame("changed", 0, Absent, "stream-room-messages", "__my_messages__", doc)

Pushed == Len(chat_queue) + Len(getDone) + Len(units)

\* the server pushes a message of the subscribed stream
RecvEvent ==
    \E doc \in ChatDocs : Pushed < MaxEvents /\ ReadLoop(ChatFrame(doc))

OnWire(id) == \E i \in 1..Len(wire) : wire[i].id = id

\* the server answers a request it has read and not answered yet
RecvAnswer ==
    \E id \in DOMAIN completion_event :
        /\ OnWire(id) /\ ~completion_event[id]
        /\ ReadLoop(InFrame("result", id, "r1", Absent, Absent, NoDoc))

----------------------------------------------------------------------------
(* Specifications.                                                         *)

\* the state after run() has started the tasks of _bootstrap
Init ==
    /\ session = "running" /\ proc = "running"
    /\ write_queue = <<>> /\ wire = <<>>
    /\ nextId = 1
    /\ completion_event = <<>> /\ completion = <<>>
    /\ connected = FALSE /\ headers = FALSE
    /\ readPc = "running" /\ writePc = "running" /\ chatPc = "running"
    /\ wsPc = "init" /\ wsId = 0 /\ restPc = "init"
    /\ nRecv = 0 /\ resp = <<>> /\ returns = <<>>
    /\ chat_queue = <<>> /\ getTasks = 1 /\ getDone = <<>> /\ units = <<>>
    /\ now = 0
    /\ last_called = [i \in 1..Len(Matches) |-> -1]
    /\ triggers = [i \in 1..Len(Matches) |-> <<>>]
    /\ msg_q = <<>>
    /\ registry = RegisterAll(NoRegistry, AppCalls)
    /\ pure = NoCall

\* the session layer under a server that sends any frame at any time
Next ==
    \/ WsConnect \/ WsLogin \/ WsSubscribe \/ WsDone
    \/ \E ok \in BOOLEAN : RestBootstrap(ok)
    \/ WriteLoop
    \/ RecvAny
    \/ Abort

Spec == Init /\ [][Next]_vars

\* the state when both bootstrap coroutines have finished
InitChat ==
    /\ session = "running" /\ proc = "running"
    /\ write_queue = <<>>
    /\ wire = <<OutFrame("connect", 0, Absent, Absent, NoText),
                OutFrame("method", 1, "login", Absent, NoText),
                OutFrame("sub", 2, "stream-room-messages", Absent, NoText)>>
    /\ nextId = 3
    /\ completion_event = <<>> /\ completion = <<>>
    /\ connected = TRUE /\ headers = TRUE
    /\ readPc = "running" /\ writePc = "running" /\ chatPc = "running"
    /\ wsPc = "done" /\ wsId = 0 /\ restPc = "done"
    /\ nRecv = 3 /\ resp = <<<<"r1">>, <<"r1">>>> /\ returns = <<"r1", "r1">>
    /\ chat_queue = <<>> /\ getTasks = 1 /\ getDone = <<>> /\ units = <<>>
    /\ now = 0
    /\ last_called = [i \in 1..Len(Matches) |-> -1]
    /\ triggers = [i \in 1..Len(Matches) |-> <<>>]
    /\ msg_q = <<>>
    /\ registry = RegisterAll(NoRegistry, AppCalls)
    /\ pure = NoCall

\* the dispatcher under a server that pushes chat events and answers requests
NextChat ==
    \/ RecvEvent \/ RecvAnswer
    \/ WriteLoop
    \/ GetTask \/ ChatLoop
    \/ \E i \in 1..Len(units) : UnitStart(i)
    \/ \E i \in 1..Len(units) : UnitResume(i)
    \/ \E i \in 1..Len(units) : HandlerWake(i)
    \/ Tick

SpecChat == InitChat /\ [][NextChat]_vars

\* the chat events of the match specification: texts the matches match,
\* and a command whose handler sleeps
MatchDocs ==
    {Alice("GENERAL", FALSE, <<"linux">>),
     Alice("GENERAL", FALSE, <<"linux", "hello">>),
     Alice("GENERAL", TRUE, <<"say", "linux">>),
     Alice("OTHER", TRUE, <<"timer", "1">>)}

RecvMatchEvent ==
    \E doc \in MatchDocs : Pushed < MaxMatchEvents /\ ReadLoop(ChatFrame(doc))

\* the dispatcher under a server that pushes the events of MatchDocs
NextMatch ==
    \/ RecvMatchEvent \/ RecvAnswer
    \/ WriteLoop
    \/ GetTask \/ ChatLoop
    \/ \E i \in 1..Len(units) : UnitStart(i)
    \/ \E i \in 1..Len(units) : UnitResume(i)
    \/ \E i \in 1..Len(units) : HandlerWake(i)
    \/ Tick

SpecMatch == InitChat /\ [][NextMatch]_vars

\* the chat events of the startup specification
BootDocs ==
    {Alice("GENERAL", TRUE, <<"ping">>),
     Alice("GENERAL", FALSE, <<"linux">>)}

\* the server answers the connect frame it has read
RecvConnected ==
    /\ \E k \in 1..Len(wire) : wire[k].msg = "connect"
    /\ ~connected
    /\ ReadLoop(InFrame("connected", 0, Absent, Absent, Absent, NoDoc))

Pongs == Len(SelectSeq(wire \o write_queue, LAMBDA f : f.msg = "pong"))

\* the server probes the connection
RecvPing ==
    /\ Pongs < MaxPings
    /\ ReadLoop(InFrame("ping", 0, Absent, Absent, Absent, NoDoc))

\* the server pushes a message of the stream once it has read the sub frame
RecvBootEvent ==
    /\ \E k \in 1..Len(wire) : wire[k].msg = "sub"
    /\ \E doc \in BootDocs : Pushed < MaxBootEvents /\ ReadLoop(ChatFrame(doc))

\* the whole of _bootstrap under a server that follows the protocol: the
\* two bootstrap coroutines run beside the write, read and chat loops
NextBoot ==
    \/ WsConnect \/ WsLogin \/ WsSubscribe \/ WsDone
    \/ \E ok \in BOOLEAN : RestBootstrap(ok)
    \/ Abort
    \/ WriteLoop
    \/ RecvConnected \/ RecvAnswer \/ RecvPing \/ RecvBootEvent
    \/ GetTask \/ ChatLoop
    \/ \E i \in 1..Len(units) : UnitStart(i)
    \/ \E i \in 1..Len(units) : UnitResume(i)

SpecBoot == Init /\ [][NextBoot]_vars

\* the names, handlers and handler signatures of the registration
\* specification
RegCalls ==
    [command : {"ping", "say"}, coro : {"ping", "say"}, params : {0, 1}]

\* the application decorates a handler with @app.cmd(command)
Cmd(call) ==
    /\ session = "unstarted" /\ proc = "running"
    /\ Len(registry.calls) < MaxCalls
    /\ registry' = Register(registry, call)
    /\ proc' = IF registry'.raised /= None THEN "exited" ELSE proc
    /\ UNCHANGED sessionVars
    /\ UNCHANGED <<chat_queue, getTasks, getDone, chatPc, units, now, last_called,
                   triggers, msg_q, pure>>

\* app.run(): _bootstrap connects and starts the tasks
RunApp ==
    /\ session = "unstarted" /\ proc = "running"
    /\ session' = "running"
    /\ UNCHANGED <<write_queue, wire, nextId, completion_event, completion, connected,
                   headers, readPc, writePc, wsPc, wsId, restPc, nRecv, resp, returns>>
    /\ UNCHANGED chatVars
    /\ UNCHANGED <<registry, pure>>

\* the module of the application is imported, nothing is registered yet
InitReg ==
    /\ session = "unstarted" /\ proc = "running"
    /\ write_queue = <<>> /\ wire = <<>>
    /\ nextId = 1
    /\ completion_event = <<>> /\ completion = <<>>
    /\ connected = FALSE /\ headers = FALSE
    /\ readPc = "running" /\ writePc = "running" /\ chatPc = "running"
    /\ wsPc = "init" /\ wsId = 0 /\ restPc = "init"
    /\ nRecv = 0 /\ resp = <<>> /\ returns = <<>>
    /\ chat_queue = <<>> /\ getTasks = 1 /\ getDone = <<>> /\ units = <<>>
    /\ now = 0
    /\ last_called = [i \in 1..Len(Matches) |-> -1]
    /\ triggers = [i \in 1..Len(Matches) |-> <<>>]
    /\ msg_q = <<>>
    /\ registry = NoRegistry
    /\ pure = NoCall

\* the registrations, then the start of the session
NextReg ==
    \/ \E call \in RegCalls : Cmd(call)
    \/ RunApp
    \/ WsConnect
    \/ \E ok \in BOOLEAN : RestBootstrap(ok)
    \/ WriteLoop
    \/ Abort

SpecReg == InitReg /\ [][NextReg]_vars

----------------------------------------------------------------------------
(* The session layer.                                                      *)

\* C1: when _msg returns for an id, the value returned is the payload of
\* the response frame received for that id (the one stored last before the
\* caller woke up), and in the state the call returns in neither
\* _completion_event nor _completion holds an entry for the id.
C1_RoundTrip ==
    [][\A id \in (DOMAIN returns') \ (DOMAIN returns) :
          /\ id \in DOMAIN resp
          /\ returns'[id] = Last(resp[id])
          /\ id \notin DOMAIN completion_event'
          /\ id \notin DOMAIN completion']_vars

\* both requests of the handshake have returned, with different payloads
C1_Witness ==
    /\ DOMAIN returns = {1, 2}
    /\ returns[1] = "r1" /\ returns[2] = "r2"
    /\ wsPc = "done"

\* C2: a result or nosub frame whose id has no pending request is ignored:
\* the step that receives it leaves the read loop running and the
\* correlation maps as they were.
C2_UnknownIdIgnored ==
    [][\A id \in DOMAIN resp' :
          (/\ id \notin DOMAIN resp \/ resp'[id] /= resp[id]
           /\ id \notin DOMAIN completion_event)
          => readPc' = "running" /\ completion' = completion]_vars

----------------------------------------------------------------------------
(* The dispatcher.                                                         *)

Unit(i) == units[i]

UnitIds == 1..Len(units)

MatchCoros == {Matches[i].coro : i \in 1..Len(Matches)}

CommandCoros == {Commands[c].coro : c \in CommandNames}

\* the replies of the command dispatch of a unit
CmdReplies(u) == SelectSeq(u.replies, LAMBDA r : r.via /= "match")

\* the handlers a unit has invoked, as a set
Called(u) == {u.calls[k] : k \in 1..Len(u.calls)}

\* the for loop over the matches has run to its end
LoopFinished(u) == u.mi > Len(Matches)

\* the text is a command line that tokenizes to at least one word
CommandLine(doc) == doc.text.prefix /\ ShlexOk(doc.text) /\ doc.text.words /= <<>>

\* a command line that names a command visible in the room, with
\* arguments the parser accepts
ValidCommand(doc) ==
    /\ CommandLine(doc)
    /\ Head(doc.text.words) \in Visible(doc.rid)
    /\ ParseArgs(doc.rid, doc.text.words).err = NoText

\* a command line whose first word is neither a command nor an option
UnknownCommand(doc) ==
    /\ CommandLine(doc)
    /\ Head(doc.text.words) \notin CommandNames \cup HelpOptions \cup {"help"}

\* a command line that parse_args rejects
ParseFails(doc) ==
    /\ CommandLine(doc)
    /\ Head(doc.text.words) /= "help"
    /\ ParseArgs(doc.rid, doc.text.words).err /= NoText

\* the frame of a reply has been put on the write queue
Sent(rid, text) ==
    \E f \in {write_queue[k] : k \in 1..Len(write_queue)} \cup {wire[k] : k \in 1..Len(wire)} :
        f.method = "sendMessage" /\ f.rid = rid /\ f.text = text

\* C3: two invocations of the handler of a rate limited match are never
\* closer together than its cooldown.
C3_Cooldown ==
    \A i \in 1..Len(Matches) :
        ~NoRateLimit(Matches[i]) =>
            \A k \in 1..(Len(triggers[i]) - 1) :
                triggers[i][k + 1] - triggers[i][k] >= Matches[i].rate_limit

\* the match fired for the first and for the third event, and the second
\* event, which matched too, was held back by the cooldown
C3_Witness ==
    /\ Len(units) = 3
    /\ Len(triggers[2]) = 2
    /\ "linux_gnu" \in Called(Unit(1)) /\ "linux_gnu" \in Called(Unit(3))
    /\ Unit(2).pc = "done" /\ "linux_gnu" \notin Called(Unit(2))
    /\ PatternMatches(Matches[2], Unit(2).msg.text)

\* C4: a unit that is through with a message that passed the filter has
\* evaluated every registered match, has invoked the handler of every
\* matching match that has no cooldown, and has invoked the handler of the
\* command when the message is a valid command - whether or not a match was
\* held back by its cooldown.
C4_SkipOnlyThatPattern ==
    \A i \in UnitIds :
        LET u == Unit(i)
        IN (u.pc = "done" /\ ~Filtered(u.msg)) =>
              /\ LoopFinished(u)
              /\ \A j \in 1..Len(Matches) :
                    (NoRateLimit(Matches[j]) /\ PatternMatches(Matches[j], u.msg.text))
                        => Matches[j].coro \in Called(u)
              /\ ValidCommand(u.msg) => Commands[Head(u.msg.text.words)].coro \in Called(u)

\* C5: a unit that is through with a message that passed the filter,
\* matches a match and is a valid command has invoked the command handler,
\* last, after the handlers of the matches.
C5_PatternThenCommand ==
    \A i \in UnitIds :
        LET u == Unit(i)
        IN (/\ u.pc = "done" /\ ~Filtered(u.msg) /\ ValidCommand(u.msg)
            /\ \E j \in 1..Len(Matches) : PatternMatches(Matches[j], u.msg.text))
           => /\ u.calls /= <<>>
              /\ Last(u.calls) = Commands[Head(u.msg.text.words)].coro
              /\ \A k \in 1..(Len(u.calls) - 1) : u.calls[k] \in MatchCoros

\* a unit suspended in a handler that is never resumed
Hanging(u) == u.pc \in {"match_call", "cmd_call"} /\ u.wake = -1

\* C6: while a unit is suspended in its handler the chat loop goes on: an
\* event on the dispatch queue can be taken off it and given its unit (as
\* soon as the units created before have had their first run).
C6_SlowDoesNotBlock ==
    \A i \in UnitIds :
        (/\ Alive /\ Unit(i).pc \in {"match_call", "cmd_call"} /\ chat_queue /= <<>>
         /\ \A j \in UnitIds : Unit(j).pc /= "new")
            => ENABLED (GetTask \/ ChatLoop)

\* the reply of a later event is on the socket while the unit of an earlier
\* event still sleeps in the timer handler and has not replied
C6_Witness ==
    \E i, j \in UnitIds :
        /\ i < j
        /\ Unit(i).pc = "cmd_call" /\ Last(Unit(i).calls) = "timer" /\ Unit(i).replies = <<>>
        /\ Unit(j).pc = "done" /\ Unit(j).replies /= <<>>
        /\ \E k \in 1..Len(wire) :
              wire[k].method = "sendMessage" /\ wire[k].text = Unit(j).replies[1].text

\* what the tasks, the clock and the answering server can do
Progress ==
    \/ WriteLoop \/ RecvAnswer
    \/ GetTask \/ ChatLoop
    \/ \E i \in 1..Len(units) : UnitStart(i)
    \/ \E i \in 1..Len(units) : UnitResume(i)
    \/ \E i \in 1..Len(units) : HandlerWake(i)
    \/ Tick

\* the event loop runs a task that is ready, time passes, and the server
\* answers the requests it has read; the server need not push events
SpecLive == InitChat /\ [][NextChat]_vars /\ WF_vars(Progress)

\* C7: every event put on the dispatch queue is eventually taken off it,
\* given its unit and processed until the unit is done or sits in a handler
\* that never returns - whatever the units of the other events do.
C7_OthersProgress ==
    \A k \in 1..MaxEvents :
        (Pushed >= k) ~> (Len(units) >= k /\ (Unit(k).pc = "done" \/ Hanging(Unit(k))))

\* the first unit hangs in its handler, the unit of the next event is done
\* and has replied
C7_Witness ==
    /\ Len(units) = 2
    /\ Hanging(Unit(1))
    /\ Unit(2).pc = "done" /\ Unit(2).replies /= <<>>

\* the events C8 speaks of, read off the document: authored by the bot's own
\* account, carrying an edit timestamp, or carrying at least one reaction
OwnEditedOrReacted(doc) ==
    doc.u = Username \/ doc.editedAt /= Absent \/ doc.reactions >= 1

\* C8: a unit whose event is the bot's own, edited, or carries a reaction has
\* invoked no handler and made no reply, and a step of such a unit leaves
\* every last_called and the write queue as they were.
C8_FilteredIgnored ==
    /\ [](\A i \in UnitIds :
            OwnEditedOrReacted(Unit(i).msg)
                => Unit(i).calls = <<>> /\ Unit(i).replies = <<>>)
    /\ [][\A i \in UnitIds :
            (OwnEditedOrReacted(Unit(i).msg) /\ units'[i] /= units[i])
                => last_called' = last_called /\ write_queue' = write_queue]_vars

\* an edited message and a message of the bot itself have been dropped
C8_Witness ==
    /\ Len(units) = 2
    /\ edited_at(Unit(1).msg) /= None /\ Unit(1).pc = "done"
    /\ Unit(2).msg.u = Username /\ Unit(2).pc = "done"

ErrorKinds == {"invalid choice", "invalid int value", "unrecognized arguments",
               "the following arguments are required"}

\* C10: the process and the chat loop keep running; a unit whose command
\* line parse_args has rejected has put at least one reply on the write
\* queue, every reply of it goes to the room of the message and is the
\* error text or a captured text, and it has invoked no command handler.
C10_ParseFailure ==
    /\ proc = "running" /\ chatPc = "running"
    /\ \A i \in UnitIds :
        LET u == Unit(i)
        IN (ParseFails(u.msg) /\ LoopFinished(u)) =>
              /\ u.ctx = "fail"
              /\ CmdReplies(u) /= <<>>
              /\ \A k \in 1..Len(CmdReplies(u)) :
                    /\ CmdReplies(u)[k].rid = u.msg.rid
                    /\ CmdReplies(u)[k].text.k \in ErrorKinds \cup {"fenced"}
                    /\ Sent(u.msg.rid, CmdReplies(u)[k].text)
              /\ Called(u) \cap CommandCoros = {}

\* the unit of !timer notanumber is done, the error text is on the socket,
\* and a unit created after it has been run
C10_Witness ==
    \E i \in UnitIds :
        /\ Unit(i).msg.text.words = <<"timer", "notanumber">>
        /\ Unit(i).pc = "done"
        /\ \E k \in 1..Len(wire) :
              /\ wire[k].rid = Unit(i).msg.rid
              /\ wire[k].text = ErrText("invalid int value", "notanumber")
        /\ \E j \in UnitIds : j > i /\ Unit(j).pc /= "new"

\* the command was registered with an allow-list that lacks the room
Restricted(c, room) ==
    Commands[c].rooms /= <<>> /\ room \notin Commands[c].rooms[1]

\* a command line whose first word is a command restricted in its room
RestrictedCommand(doc) ==
    /\ CommandLine(doc)
    /\ Head(doc.text.words) \in CommandNames
    /\ Restricted(Head(doc.text.words), doc.rid)

C12_InvalidCommandOnLookup ==
    \A i \in UnitIds :
        LET u == Unit(i)
        IN (/\ u.pc = "done" /\ u.ctx = "ok"
            /\ Head(u.msg.text.words) \notin CommandNames) =>
              /\ \E k \in 1..Len(u.replies) :
                    /\ u.replies[k].rid = u.msg.rid
                    /\ u.replies[k].text.k = "invalid command"
              /\ Called(u) \cap CommandCoros = {}

\* the registry the calls made so far should have produced: a call enters
\* its handler when the handler takes a parameter and the name is new
RECURSIVE Kept(_)
Kept(calls) ==
    IF calls = <<>> THEN <<>>
    ELSE LET before == Kept(SubSeq(calls, 1, Len(calls) - 1))
             c == Last(calls)
         IN IF c.params >= 1 /\ c.command \notin DOMAIN before
            THEN Put(before, c.command, c.coro) ELSE before

\* the call must fail: the name is taken or the handler has no parameter
MustFail(calls, k) ==
    calls[k].params = 0 \/ calls[k].command \in DOMAIN Kept(SubSeq(calls, 1, k - 1))

\* C13: a cmd() call raises exactly when the name is registered already or
\* the handler takes no parameter; the registry holds what the calls that
\* did not fail entered (a failed call changes nothing, the first handler
\* of a name stays); after a failed call the session is never started and
\* nothing is queued or written.
C13_RegistrationFails ==
    LET calls == registry.calls
    IN /\ registry.commands = Kept(calls)
       /\ \A k \in 1..(Len(calls) - 1) : ~MustFail(calls, k)
       /\ registry.raised /= None <=> (calls /= <<>> /\ MustFail(calls, Len(calls)))
       /\ registry.raised /= None =>
             session = "unstarted" /\ write_queue = <<>> /\ wire = <<>> /\ restPc = "init"

\* a second handler for a registered name was refused and the first one
\* is still registered; nothing was started
C13_Witness ==
    /\ Len(registry.calls) = 2
    /\ registry.calls[1].command = registry.calls[2].command
    /\ registry.calls[1].coro /= registry.calls[2].coro
    /\ registry.calls[2].params = 1
    /\ registry.raised = "ValueError"
    /\ registry.commands[registry.calls[1].command] = registry.calls[1].coro
    /\ session = "unstarted"

\* C14: a unit whose command handler raised has made no reply for the
\* command and is finished; the chat loop, the read loop, the write loop
\* and the session are as alive as before, and an event on the dispatch
\* queue can still be taken off it and given its unit.
C14_HandlerErrorCaught ==
    \A i \in UnitIds :
        LET u == Unit(i)
        IN (u.calls /= <<>> /\ HandlerKind(Last(u.calls)) = "raise") =>
              /\ u.pc = "done"
              /\ \A k \in 1..Len(u.replies) : u.replies[k].via \notin {"cmd", "error"}
              /\ chatPc = "running" /\ readPc = "running" /\ writePc = "running"
              /\ session = "running" /\ proc = "running"
              /\ (chat_queue /= <<>> /\ \A j \in UnitIds : Unit(j).pc /= "new")
                    => ENABLED (GetTask \/ ChatLoop)
              /\ \A j \in UnitIds : Unit(j).pc = "new" => ENABLED UnitStart(j)

\* the handler of !crash raised and nothing was replied; the event that
\* came after it was dispatched and answered
C14_Witness ==
    /\ Len(units) = 2
    /\ Unit(1).msg.text.words = <<"crash">>
    /\ Unit(1).calls = <<"crash">> /\ Unit(1).replies = <<>> /\ Unit(1).pc = "done"
    /\ Unit(2).msg.text.words = <<"ping">>
    /\ Unit(2).calls = <<"ping">> /\ Unit(2).pc = "done"
    /\ \E k \in 1..Len(wire) : wire[k].text = Response("ping")

\* the values of "msg" the read loop has a branch for
KnownTypes == {"ping", "connected", "result", "nosub", "changed"}

\* C15: the step that receives a frame that is not JSON, has no "msg" or
\* has a "msg" without a branch leaves the correlation maps and the dispatch
\* queue as they were and the read loop running.
C15_BadFrameDropped ==
    [][\A f \in SessionFrames :
          (f.msg \notin KnownTypes /\ ReadLoop(f)) =>
              /\ completion' = completion /\ completion_event' = completion_event
              /\ chat_queue' = chat_queue
              /\ readPc' = "running"]_vars

\* every frame put on the write queue so far, in the order of the puts
Queued == wire \o write_queue

IsConnect(f) == f.msg = "connect"

IsLogin(f) == f.msg = "method" /\ f.method = "login"

IsSub(f) == f.msg = "sub"

\* the frames of the handshake among the frames of a sequence
Handshake(fs) == SelectSeq(fs, LAMBDA f : IsConnect(f) \/ IsLogin(f) \/ IsSub(f))

\* C16: a login frame is on the write queue only when a connected frame
\* has been received, and after the connect frame; a sub frame only when a
\* response to the login request has been received, and after the login
\* frame; the socket gets the three frames in the order connect, login,
\* sub, each once.
C16_HandshakeOrder ==
    LET hq == Handshake(Queued)
        hw == Handshake(wire)
    IN /\ Len(hq) <= 3
       /\ Len(hq) >= 1 => IsConnect(hq[1])
       /\ Len(hq) >= 2 => IsLogin(hq[2]) /\ connected
       /\ Len(hq) >= 3 =>
             /\ IsSub(hq[3])
             /\ hq[2].id \in DOMAIN resp /\ resp[hq[2].id] /= <<>>
             /\ hq[2].id \in DOMAIN returns
       /\ hw = SubSeq(hq, 1, Len(hw))

\* the handshake is over and the three frames are on the socket
C16_Witness ==
    /\ wsPc = "done" /\ connected
    /\ Len(Handshake(wire)) = 3
    /\ IsConnect(Handshake(wire)[1]) /\ IsLogin(Handshake(wire)[2]) /\ IsSub(Handshake(wire)[3])

\* C17: a unit has invoked a handler only when ws_bootstrap and
\* rest_bootstap have both finished without an exception.
C17_UsableOnlyAfterBootstrap ==
    \A i \in UnitIds :
        Unit(i).calls /= <<>> => wsPc = "done" /\ restPc = "done" /\ headers

\* C18: in every step the frames written followed by the frames waiting
\* stay as they were, with the frames a task has put appended at the end;
\* the socket gets at most one frame in a step, and it is the frame that
\* was at the head of the write queue.
C18_WriteOrder ==
    [][/\ Len(Queued') >= Len(Queued)
       /\ SubSeq(Queued', 1, Len(Queued)) = Queued
       /\ wire' /= wire =>
             /\ write_queue /= <<>>
             /\ wire' = Append(wire, Head(write_queue))
             /\ write_queue' = Tail(write_queue)]_vars

\* frames of the handshake, a pong and a reply of a unit have been written,
\* and two more frames are waiting
C18_Witness ==
    /\ \E k \in 1..Len(wire) : IsLogin(wire[k])
    /\ \E k \in 1..Len(wire) : wire[k].msg = "pong"
    /\ \E k \in 1..Len(wire) : wire[k].method = "sendMessage"
    /\ Len(write_queue) >= 2

\* every event put on the dispatch queue so far, in the order of the puts:
\* the events that have a unit, the event the chat loop is about to give a
\* unit, the events that wait
Arrived == [i \in 1..Len(units) |-> units[i].msg] \o getDone \o chat_queue

\* C19: the units are created in the order their events were put on the
\* dispatch queue (a step only appends to the sequence of events, read
\* from the oldest unit to the newest waiting event), and a unit has had
\* its first run only when every unit created before it has.
C19_UnitsBeginInOrder ==
    /\ [](\A i, j \in UnitIds : (i < j /\ Unit(j).pc /= "new") => Unit(i).pc /= "new")
    /\ [][/\ Len(Arrived') >= Len(Arrived)
          /\ SubSeq(Arrived', 1, Len(Arrived)) = Arrived]_vars

\* the unit of a later event is finished while the unit of a different,
\* earlier event is not
C19_Witness ==
    \E i, j \in UnitIds :
        /\ i < j /\ Unit(i).msg /= Unit(j).msg
        /\ Unit(i).pc \notin {"new", "done"}
        /\ Unit(j).pc = "done" /\ Unit(j).replies /= <<>>

\* the keepalive ack: {"msg": "pong"} and nothing else
PongFrame == [msg |-> "pong", id |-> 0, method |-> Absent, rid |-> Absent, text |-> NoText]

\* C20: the step that receives a ping puts exactly one pong frame, without
\* an id, at the end of the write queue, registers no completion event,
\* stores no result and uses up no id, and the read loop is running after
\* it without waiting for anything; the number of pong frames put so far
\* changes in no other step; no pong frame carries an id.
C20_PingPong ==
    /\ [](\A k \in 1..Len(Queued) : Queued[k].msg = "pong" => Queued[k] = PongFrame)
    /\ [][/\ \A f \in SessionFrames :
               (f.msg = "ping" /\ ReadLoop(f)) =>
                   /\ write_queue' = Append(write_queue, PongFrame)
                   /\ completion_event' = completion_event
                   /\ completion' = completion
                   /\ nextId' = nextId
                   /\ readPc' = "running"
          /\ Pongs' /= Pongs =>
               /\ Pongs' = Pongs + 1
               /\ \E f \in SessionFrames : f.msg = "ping" /\ ReadLoop(f)]_vars

\* two pings have been received and answered, one pong is on the socket
\* and one waits, while the login request is pending
C20_Witness ==
    /\ Pongs = 2
    /\ \E k \in 1..Len(wire) : wire[k] = PongFrame
    /\ \E k \in 1..Len(write_queue) : write_queue[k] = PongFrame
    /\ wsPc = "wait_login" /\ DOMAIN completion_event = {wsId}

----------------------------------------------------------------------------
(* The session layer, continued.                                           *)

NosubFrames == {f \in ResponseFrames(1..MaxId) : f.msg = "nosub"}

\* C21: a nosub frame received for an id with a pending request stores None
\* as the result of the id and sets the event of the id, so that the
\* caller waiting for it can go on, and leaves the read loop running; the
\* call whose last response was a nosub frame returns None, and in the
\* state it returns in neither _completion_event nor _completion holds an
\* entry for the id.
C21_NosubResolves ==
    /\ [][\A f \in NosubFrames :
            (f.id \in DOMAIN completion_event /\ ReadLoop(f)) =>
                /\ completion'[f.id] = None
                /\ completion_event'[f.id]
                /\ Ready(f.id)'
                /\ readPc' = "running"]_vars
    /\ [][\A id \in (DOMAIN returns') \ (DOMAIN returns) :
            (id \in DOMAIN resp /\ Last(resp[id]) = None) =>
                /\ returns'[id] = None
                /\ id \notin DOMAIN completion_event'
                /\ id \notin DOMAIN completion']_vars

\* the login request was answered with nosub while the caller waited, and
\* the caller has gone on with None and has sent the subscription
C21_Witness ==
    /\ wsPc = "wait_sub"
    /\ 1 \in DOMAIN returns /\ returns[1] = None
    /\ resp[1] = <<None>>
    /\ 1 \notin DOMAIN completion_event /\ 1 \notin DOMAIN completion

ChangedFrames == {f \in SessionFrames : f.msg = "changed"}

OfChatStream(f) ==
    f.collection = "stream-room-messages" /\ f.eventName = "__my_messages__"

\* C22: every element of the chat queue is the event of a changed frame
\* whose collection is stream-room-messages and whose event name is
\* __my_messages__; the step that receives such a frame puts its event on
\* the queue once, at the end; the step that receives a changed frame with
\* another collection or event name, or without them, leaves the queue as
\* it was; and no other step of the session layer puts anything on it.
C22_OnlySubscribedQueued ==
    /\ [](\A i \in 1..Len(chat_queue) :
            \E f \in ChangedFrames : OfChatStream(f) /\ chat_queue[i] = f.args)
    /\ [][\A f \in ChangedFrames :
            ReadLoop(f) => chat_queue' = IF OfChatStream(f) THEN Append(chat_queue, f.args)
                                         ELSE chat_queue]_vars
    /\ [][chat_queue' /= chat_queue =>
            \E f \in ChangedFrames : OfChatStream(f) /\ ReadLoop(f)]_vars

\* two frames of the chat stream are queued and the two other frames
\* received, which had no effect on the session, are not
C22_Witness ==
    /\ Len(chat_queue) = 2 /\ nRecv = 4
    /\ readPc = "running" /\ ~connected /\ resp = <<>>
    /\ \A i \in 1..Len(Queued) : Queued[i].msg /= "pong"

\* the frames the server can send while units run: those of the session
\* layer, the chat events, and a response for every pending request
AnyFrame ==
    SessionFrames \cup {ChatFrame(doc) : doc \in ChatDocs}
        \cup {InFrame("result", id, "r1", Absent, Absent, NoDoc) : id \in DOMAIN completion_event}

Pending(id) == id \in DOMAIN completion_event /\ ~completion_event[id]

\* C23: as long as the session and the read loop run, the read loop can
\* take whatever frame the socket delivers next and handle it in one step -
\* whatever requests are pending, whatever the units and their handlers
\* are waiting for and however long the queues are - and the step that
\* receives the response of a pending request makes the request ready.
C23_ReadNeverWaits ==
    (Alive /\ readPc = "running") =>
        /\ \A f \in AnyFrame : ENABLED ReadLoop(f)
        /\ \A id \in DOMAIN completion_event :
              Pending(id) =>
                  ENABLED (ReadLoop(InFrame("result", id, "r1", Absent, Absent, NoDoc))
                           /\ Ready(id)')

\* the read loop runs while a unit waits for the response of its reply
\* and both queues hold an element
C23_Witness ==
    /\ Alive /\ readPc = "running"
    /\ write_queue /= <<>> /\ chat_queue /= <<>>
    /\ \E i \in UnitIds : Unit(i).wait /= 0 /\ Pending(Unit(i).wait)

\* C24: the result stored for a pending request is never replaced by the
\* step of a later response frame with the same id, and the value a call
\* returns is the payload of the first response frame received for its id.
C24_FirstPayloadWins ==
    /\ [][\A id \in DOMAIN completion :
            (id \in DOMAIN completion_event /\ id \in DOMAIN completion')
                => completion'[id] = completion[id]]_vars
    /\ [][\A id \in (DOMAIN returns') \ (DOMAIN returns) :
            id \in DOMAIN resp => returns'[id] = resp[id][1]]_vars

----------------------------------------------------------------------------
(* The dispatcher, continued.                                              *)

\* what the parser of a message's own dispatch captures
Captured(doc) ==
    IF ~CommandLine(doc) THEN <<>>
    ELSE IF Head(doc.text.words) = "help" THEN <<HelpText("!", Visible(doc.rid))>>
    ELSE ParseArgs(doc.rid, doc.text.words).printed

\* C25: a unit that is through with a command line whose first word is
\* help has sent the help text that lists the commands visible in the room
\* of the message to that room, and has invoked no command handler.
C25_HelpPseudoCommand ==
    \A i \in UnitIds :
        LET u == Unit(i)
        IN (/\ u.pc = "done" /\ ~Filtered(u.msg)
            /\ CommandLine(u.msg) /\ Head(u.msg.text.words) = "help")
           => /\ \E k \in 1..Len(u.replies) :
                    /\ u.replies[k].rid = u.msg.rid
                    /\ u.replies[k].text = Fenced(HelpText("!", Visible(u.msg.rid)))
              /\ Called(u) \cap CommandCoros = {}

\* C26: every reply a unit makes of the return value of a handler is
\* non-empty text and goes to the room of the message, and there is at
\* most one such reply for each handler the unit has invoked.
C26_OnlyNonEmptyRelayed ==
    \A i \in UnitIds :
        LET u == Unit(i)
            relayed == SelectSeq(u.replies, LAMBDA r : r.via \in {"match", "cmd"})
        IN /\ Len(relayed) <= Len(u.calls)
           /\ \A k \in 1..Len(relayed) :
                 relayed[k].rid = u.msg.rid /\ relayed[k].text.a /= ""

\* C27: the captured texts a unit relays are texts the parser of its own
\* dispatch captured, no more of them than that parser captured, and they
\* go to the room of its message.
C27_OwnCaptureOnly ==
    \A i \in UnitIds :
        LET u == Unit(i)
            own == Captured(u.msg)
        IN /\ u.num <= Len(own)
           /\ \A k \in 1..Len(u.replies) :
                 u.replies[k].via = "drain" =>
                     /\ u.replies[k].rid = u.msg.rid
                     /\ \E n \in 1..Len(own) : u.replies[k].text = Fenced(own[n])

\* C28: a unit that is through with a message that passed the filter has
\* invoked the handler of every match without a rate limit that matches
\* the message.
C28_NoCooldownAlwaysFires ==
    \A i \in UnitIds :
        \A j \in 1..Len(Matches) :
            (/\ Unit(i).pc = "done" /\ ~Filtered(Unit(i).msg)
             /\ NoRateLimit(Matches[j])
             /\ PatternMatches(Matches[j], Unit(i).msg.text))
                => Matches[j].coro \in Called(Unit(i))

\* C29: the step that changes last_called of a match sets it to the time
\* of the step and is the step of a unit that invokes the handler of the
\* match; so last_called of a match is the time its handler was invoked
\* last (-1: never).
C29_StampOnlyOnTrigger ==
    /\ [][\A j \in 1..Len(Matches) :
            last_called'[j] /= last_called[j] =>
                /\ last_called'[j] = now
                /\ \E i \in 1..Len(units) :
                      /\ Len(units'[i].calls) > Len(units[i].calls)
                      /\ \E k \in (Len(units[i].calls) + 1)..Len(units'[i].calls) :
                            units'[i].calls[k] = Matches[j].coro]_vars
    /\ [](\A j \in 1..Len(Matches) :
            last_called[j] = IF triggers[j] = <<>> THEN -1 ELSE Last(triggers[j]))

\* the rate limited match fired at time 0 and again at time 2, a cooldown
\* later, and in between a unit was through with a message that matches
\* it, without invoking the handler
C29_Witness ==
    /\ Len(units) = 3
    /\ triggers[2] = <<0, 2>> /\ last_called[2] = 2
    /\ Unit(2).pc = "done" /\ ~Filtered(Unit(2).msg)
    /\ PatternMatches(Matches[2], Unit(2).msg.text)
    /\ Matches[2].coro \notin Called(Unit(2))
    /\ Matches[2].coro \in Called(Unit(3))

Raising == {c \in MatchCoros : HandlerKind(c) = "raise"}

\* C30: a unit that is through with a message for which it invoked a match
\* handler that raised has evaluated every registered match, and has
\* dispatched the command when the message is a command line.
C30_MatchErrorCaught ==
    \A i \in UnitIds :
        LET u == Unit(i)
        IN (u.pc = "done" /\ Called(u) \cap Raising /= {})
           => /\ LoopFinished(u)
              /\ CommandLine(u.msg) => u.ctx /= Absent

----------------------------------------------------------------------------
(* src/util.py.  A file name is the sequence of its characters.            *)

Chars == {"a", "A", ".", "/"}

\* str.lower() on a character
Lower(c) ==
    CASE c = "A" -> "a" [] c = "L" -> "l" [] c = "I" -> "i" [] c = "N" -> "n"
      [] c = "U" -> "u" [] c = "X" -> "x" [] c = "G" -> "g" [] OTHER -> c

\* str.rfind(c), counting from 1: 0 when c does not occur
RFind(p, c) ==
    LET at == {i \in 1..Len(p) : p[i] = c}
    IN IF at = {} THEN 0 ELSE CHOOSE i \in at : \A j \in at : j <= i

\* os.path.basename: what follows the last slash
basename(p) == SubSeq(p, RFind(p, "/") + 1, Len(p))

\* os.path.splitext(p)[0]: the last dot starts the extension unless only
\* dots stand between the start of the last component and it
splitext(p) ==
    LET sepIndex == RFind(p, "/")
        dotIndex == RFind(p, ".")
    IN IF dotIndex > sepIndex /\ \E k \in (sepIndex + 1)..(dotIndex - 1) : p[k] /= "."
       THEN SubSeq(p, 1, dotIndex - 1)
       ELSE p

normalize_filename(file) ==
    LET root == splitext(basename(file))
    IN [i \in 1..Len(root) |-> Lower(root[i])]

\* a variant of index() that returns the last position of the value
IndexLast(list, x) ==
    LET at == {i \in 1..Len(list) : list[i] = x}
    IN IF at = {} THEN 0 ELSE CHOOSE i \in at : \A j \in at : j <= i

\* list.index(x), counting from 1: the first position of the value, 0 for
\* ValueError
Index(list, x) ==
    LET at == {i \in 1..Len(list) : list[i] = x}
    IN IF at = {} THEN 0 ELSE CHOOSE i \in at : \A j \in at : i <= j

\* found is FALSE and file is empty for None
get_file_by_name(files, filename) ==
    LET norm_files == [i \in 1..Len(files) |-> normalize_filename(files[i])]
        index == Index(norm_files, normalize_filename(filename))
    IN IF index = 0 THEN [found |-> FALSE, file |-> <<>>]
       ELSE [found |-> TRUE, file |-> files[index]]

Names == UNION {[1..n -> Chars] : n \in 0..MaxLen}

FileLists == UNION {[1..n -> Names] : n \in 0..MaxFiles}

\* the call returns
GetFileByName ==
    /\ pure.fn = "get_file_by_name" /\ pure.pc = "called"
    /\ LET r == get_file_by_name(pure.files, pure.filename)
       IN pure' = [pure EXCEPT !.pc = "returned", !.found = r.found, !.file = r.file]
    /\ UNCHANGED sessionVars
    /\ UNCHANGED chatVars
    /\ UNCHANGED registry

\* get_file_by_name is called with any list of files and any name
InitUtil ==
    /\ session = "unstarted" /\ proc = "running"
    /\ write_queue = <<>> /\ wire = <<>>
    /\ nextId = 1
    /\ completion_event = <<>> /\ completion = <<>>
    /\ connected = FALSE /\ headers = FALSE
    /\ readPc = "running" /\ writePc = "running" /\ chatPc = "running"
    /\ wsPc = "init" /\ wsId = 0 /\ restPc = "init"
    /\ nRecv = 0 /\ resp = <<>> /\ returns = <<>>
    /\ chat_queue = <<>> /\ getTasks = 1 /\ getDone = <<>> /\ units = <<>>
    /\ now = 0
    /\ last_called = [i \in 1..Len(Matches) |-> -1]
    /\ triggers = [i \in 1..Len(Matches) |-> <<>>]
    /\ msg_q = <<>>
    /\ registry = NoRegistry
    /\ \E files \in FileLists, filename \in Names :
          pure = [NoCall EXCEPT !.fn = "get_file_by_name", !.files = files,
                                !.filename = filename, !.pc = "called"]

NextUtil == GetFileByName

SpecUtil == InitUtil /\ [][NextUtil]_vars

\* the positions of files whose normalized name is that of filename
Matching(files, filename) ==
    {i \in 1..Len(files) : normalize_filename(files[i]) = normalize_filename(filename)}

\* C31: get_file_by_name returns None exactly when no element of files has
\* the normalized name of the name looked for, as for an empty list; it
\* returns otherwise the element at the first such position, as it is
\* spelled in files.  (The normalized name of /a.A is a, that of A/ is
\* empty, that of .a is .a.)
C31_FirstMatch ==
    /\ normalize_filename(<<"/", "a", ".", "A">>) = <<"a">>
    /\ normalize_filename(<<"A", "/">>) = <<>>
    /\ normalize_filename(<<".", "a">>) = <<".", "a">>
    /\ (pure.fn = "get_file_by_name" /\ pure.pc = "returned") =>
          LET at == Matching(pure.files, pure.filename)
          IN /\ pure.found <=> at /= {}
             /\ pure.files = <<>> => ~pure.found
             /\ pure.found =>
                   \E i \in at : (\A j \in at : i <= j) /\ pure.file = pure.files[i]

\* two elements have the normalized name looked for, in different
\* spellings, and the first one was returned as it is spelled
C31_Witness ==
    /\ pure.fn = "get_file_by_name" /\ pure.pc = "returned"
    /\ pure.files = << <<"A", ".", "a">>, <<"/", "a">> >>
    /\ pure.filename = <<"a">>
    /\ pure.found /\ pure.file = <<"A", ".", "a">>

----------------------------------------------------------------------------
(* bot.LINUX_NO_GNU: ^(?:(?!gnu).)*linux(?:(?!gnu).)*$ compiled with       *)
(* re.IGNORECASE | re.DOTALL and applied with match().  A text is the      *)
(* sequence of its characters.                                             *)

linux == <<"l", "i", "n", "u", "x">>

gnu == <<"g", "n", "u">>

\* a variant of the dot without re.DOTALL
DotNoNewline(c) == c /= "\n"

\* ".": with re.DOTALL any character, the newline too
Dot(c) == TRUE

\* re.IGNORECASE: a character of the pattern matches in either case
SameLetter(c, d) == Lower(c) = Lower(d)

\* the literal matches at position i
LiteralAt(t, i, lit) ==
    /\ i + Len(lit) - 1 <= Len(t)
    /\ \A k \in 1..Len(lit) : SameLetter(t[i + k - 1], lit[k])

\* (?:(?!gnu).) at position i
NoGnuDot(t, i) == ~LiteralAt(t, i, gnu) /\ Dot(t[i])

\* "$" without re.MULTILINE: at the end, or before a newline that ends the
\* text
AtEnd(t, i) == i = Len(t) + 1 \/ (i = Len(t) /\ t[i] = "\n")

\* LINUX_NO_GNU.match(text) is not None: some way of matching the two
\* repetitions lets the whole pattern match from the start of the text
LINUX_NO_GNU(t) ==
    \E k \in 1..(Len(t) + 1) :
        /\ \A i \in 1..(k - 1) : NoGnuDot(t, i)
        /\ LiteralAt(t, k, linux)
        /\ \E e \in (k + Len(linux))..(Len(t) + 1) :
              /\ \A i \in (k + Len(linux))..(e - 1) : NoGnuDot(t, i)
              /\ AtEnd(t, e)

Pieces ==
    {linux, <<"L", "I", "N", "U", "X">>, <<"L", "i", "n", "U", "x">>,
     gnu, <<"G", "N", "U">>, <<"g", "N", "u">>,
     <<"l", " ", "i", " ", "n", " ", "u", " ", "x">>,
     <<"a">>, <<"\n">>, <<" ">>, <<"g">>, <<"n", "u">>, <<"l", "i">>, <<"n", "u", "x">>}

RECURSIVE Flatten(_)
Flatten(ps) == IF ps = <<>> THEN <<>> ELSE Head(ps) \o Flatten(Tail(ps))

Texts == {Flatten(ps) : ps \in UNION {[1..n -> Pieces] : n \in 0..MaxPieces}}

\* the pattern is applied to the text
LinuxNoGnuMatch ==
    /\ pure.fn = "LINUX_NO_GNU.match" /\ pure.pc = "called"
    /\ pure' = [pure EXCEPT !.pc = "returned", !.found = LINUX_NO_GNU(pure.text)]
    /\ UNCHANGED sessionVars
    /\ UNCHANGED chatVars
    /\ UNCHANGED registry

\* the pattern is applied to any text
InitRe ==
    /\ session = "unstarted" /\ proc = "running"
    /\ write_queue = <<>> /\ wire = <<>>
    /\ nextId = 1
    /\ completion_event = <<>> /\ completion = <<>>
    /\ connected = FALSE /\ headers = FALSE
    /\ readPc = "running" /\ writePc = "running" /\ chatPc = "running"
    /\ wsPc = "init" /\ wsId = 0 /\ restPc = "init"
    /\ nRecv = 0 /\ resp = <<>> /\ returns = <<>>
    /\ chat_queue = <<>> /\ getTasks = 1 /\ getDone = <<>> /\ units = <<>>
    /\ now = 0
    /\ last_called = [i \in 1..Len(Matches) |-> -1]
    /\ triggers = [i \in 1..Len(Matches) |-> <<>>]
    /\ msg_q = <<>>
    /\ registry = NoRegistry
    /\ \E text \in Texts :
          pure = [NoCall EXCEPT !.fn = "LINUX_NO_GNU.match", !.text = text, !.pc = "called"]

NextRe == LinuxNoGnuMatch

SpecRe == InitRe /\ [][NextRe]_vars

\* the word occurs in the text, in any letter case
Contains(t, word) ==
    \E i \in 1..(Len(t) - Len(word) + 1) :
        [k \in 1..Len(word) |-> Lower(t[i + k - 1])] = word

\* C32: LINUX_NO_GNU matches a text exactly when the text contains linux
\* in any letter case and contains gnu in any letter case nowhere, line
\* breaks or not; it matches neither the empty text nor the letters of
\* linux with blanks between them.
C32_LinuxWithoutGnu ==
    /\ ~LINUX_NO_GNU(<<>>)
    /\ ~LINUX_NO_GNU(<<"l", " ", "i", " ", "n", " ", "u", " ", "x">>)
    /\ (pure.fn = "LINUX_NO_GNU.match" /\ pure.pc = "returned") =>
          (pure.found <=> (Contains(pure.text, linux) /\ ~Contains(pure.text, gnu)))

\* a text of three lines, the second one linux in mixed case, has matched
C32_Witness ==
    /\ pure.fn = "LINUX_NO_GNU.match" /\ pure.pc = "returned"
    /\ pure.text = <<"\n", "L", "i", "n", "U", "x", "\n">>
    /\ pure.found

----------------------------------------------------------------------------
(* The request correlator.                                                 *)

\* the ids of the frames put on the write queue so far
QueuedIds == {Queued[k].id : k \in 1..Len(Queued)} \ {0}

\* C33: for every frame with an id that is on the write queue or has been
\* written, _completion_event holds an event for the id or the call has
\* returned already; and the step that receives a result frame for an id
\* whose event exists stores the payload and sets the event, whether or
\* not the frame of the request has been written yet, so that the caller
\* finds it.
C33_EventBeforeFrame ==
    /\ [](\A id \in QueuedIds : id \in DOMAIN completion_event \/ id \in DOMAIN returns)
    /\ [][\A f \in ResponseFrames(1..MaxId) :
            (f.msg = "result" /\ f.id \in DOMAIN completion_event /\ ReadLoop(f)) =>
                Ready(f.id)' /\ completion'[f.id] = f.result]_vars
    /\ [](\A id \in DOMAIN completion_event :
            completion_event[id] => id \in DOMAIN completion)

\* the response of the login request was received, and the call returned
\* it, before the write loop had written the frame of the request
C33_Witness ==
    /\ 1 \in DOMAIN returns /\ returns[1] = "r2"
    /\ 1 \notin DOMAIN completion_event
    /\ \E k \in 1..Len(write_queue) : write_queue[k].id = 1

\* C34: every id with an entry in _completion has an entry in
\* _completion_event, and the step that removes one of the two entries of
\* an id removes the other one too.
C34_ResultHasEvent ==
    /\ [](DOMAIN completion \subseteq DOMAIN completion_event)
    /\ [][\A id \in DOMAIN completion_event :
            id \notin DOMAIN completion_event' => id \notin DOMAIN completion']_vars

----------------------------------------------------------------------------
(* The chat loop.                                                          *)

\* C35: as long as the chat loop runs there is exactly one get task that
\* is pending or has finished and not been seen by the loop, so that while
\* the loop waits in asyncio.wait exactly one get task is pending, however
\* many units there are and whatever state they are in; and the sequence
\* of events - those that have a unit, in the order of the units, then
\* those that wait - changes only when the read loop puts an event at its
\* end: no event is lost or given two units.
C35_OneGetPending ==
    /\ [](chatPc = "running" =>
            /\ getTasks + Len(getDone) = 1
            /\ getDone = <<>> => getTasks = 1)
    /\ [][\/ Arrived' = Arrived
          \/ \E doc \in ChatDocs :
                ReadLoop(ChatFrame(doc)) /\ Arrived' = Append(Arrived, doc)]_vars

\* the loop waits with one pending get task while the unit of the first
\* event is done and the unit of the second one is suspended
C35_Witness ==
    /\ Len(units) = 2
    /\ Unit(1).pc = "done" /\ Unit(2).pc \notin {"new", "done"}
    /\ getTasks = 1 /\ getDone = <<>> /\ chat_queue = <<>>

\* the unit of the k-th event waits in _get_msg for a request whose
\* result or nosub frame the read loop has received
Answered(k) ==
    /\ Len(units) >= k
    /\ Unit(k).pc \in {"match_wait", "drain_wait", "err_wait", "cmd_wait"}
    /\ Unit(k).wait \in DOMAIN resp
    /\ Unit(k).wait \in DOMAIN completion_event

\* C36: a unit that waits for a request whose result or nosub frame the
\* read loop has received does not wait for it for ever - the event loop
\* runs the tasks that are ready - whatever other requests are pending and
\* in whatever order the server answers them; and when it stops waiting
\* the request has returned.
C36_CallerUnblocked ==
    /\ \A k \in 1..MaxEvents : Answered(k) ~> ~Answered(k)
    /\ [][\A k \in 1..Len(units) :
            (Answered(k) /\ ~Answered(k)') => units[k].wait \in DOMAIN returns']_vars

\* two units wait for their responses; the server has answered the request
\* made later and not yet the one made earlier
C36_Witness ==
    \E i, j \in UnitIds :
        /\ Unit(i).wait \in DOMAIN completion_event /\ ~completion_event[Unit(i).wait]
        /\ Unit(j).wait \in DOMAIN completion_event /\ completion_event[Unit(j).wait]
        /\ Unit(i).wait < Unit(j).wait
        /\ Unit(j).wait \in DOMAIN resp

----------------------------------------------------------------------------
(* The dispatcher: command lines without a command.                        *)

\* the text starts with the prefix and is the prefix alone or has an
\* unbalanced quotation
NoCommandLine(doc) == doc.text.prefix /\ (doc.text.words = <<>> \/ doc.text.quote)

\* C37: a unit whose message is the prefix alone or cannot be tokenized
\* invokes no command handler and makes no reply other than those of the
\* matches; when it is done the session, the process and the chat loop
\* still run, and an event that waits on the dispatch queue can be taken
\* off it and given its unit.
C37_NoCommandNoReply ==
    \A i \in UnitIds :
        LET u == Unit(i)
        IN (NoCommandLine(u.msg) /\ ~Filtered(u.msg)) =>
              /\ Called(u) \cap CommandCoros = {}
              /\ CmdReplies(u) = <<>>
              /\ u.ctx = Absent
              /\ u.pc = "done" =>
                    /\ Alive /\ chatPc = "running"
                    /\ (chat_queue /= <<>> /\ \A j \in UnitIds : Unit(j).pc /= "new")
                          => ENABLED (GetTask \/ ChatLoop)

\* the unit of a command line with an unbalanced quotation is done
\* without a reply, and the unit of the next event, a command, has replied
C37_Witness ==
    /\ Len(units) = 2
    /\ Unit(1).msg.text.quote /\ Unit(1).pc = "done" /\ Unit(1).replies = <<>>
    /\ CommandLine(Unit(2).msg) /\ Unit(2).pc = "done" /\ "ping" \in Called(Unit(2))
    /\ Unit(2).replies /= <<>>

====
